---- MODULE Spec2Model ----
(***************************************************************************)
(* Model of news_sensing_system.py: the run_once pipeline (load the        *)
(* processed-identifier file, fetch every feed, scrape the MOLEG page,     *)
(* save the identifier file, build and send the digest), run repeatedly    *)
(* by an external scheduler against the same processed_items.txt.          *)
(*                                                                         *)
(* A Python str is modelled as a sequence of characters, each character a  *)
(* one-element TLA+ string.  A few fixed multi-character texts that the    *)
(* code only ever concatenates or prints are kept as one token (the        *)
(* translation marker, the error text of the placeholder, the two Korean   *)
(* syllables of a keyword).  An absent entry field and an empty            *)
(* one are both the empty sequence: the code reads every optional field    *)
(* either through `or`/`not` or with the default "".                       *)
(***************************************************************************)
EXTENDS Integers, Sequences, FiniteSets, TLC

-----------------------------------------------------------------------------
(* Bounds of the model *)

\* number of times the scheduler invokes run_once
MaxRuns == 2
\* number of entries one parsed feed holds
MaxEntries == 2
\* number of anchors the scraped page holds
MaxLinks == 1
\* number of characters of a backing file found on disk
MaxText == 4

-----------------------------------------------------------------------------
(* Characters and strings *)

NL == "\n"
SP == " "

\* The characters of the model in ascending code-point order.  "sang" and
\* "beop" stand for the syllables U+C0C1 and U+BC95 of the keyword at line
\* 184, "translation error: " for the text of line 284, which begins with
\* U+BC88; the tokens "[ko]" and "exc" sort where their first characters
\* "[" and "e" do.
CodeOrder ==
    << NL, SP, "(", ")", ".", "/", "1", "2", ":",
       "A", "C", "D", "F", "G", "P", "R",
       "[ko]",
       "a", "b", "c", "d", "e", "exc", "f", "g", "h", "k", "l", "m", "n", "o",
       "p", "r", "s", "t", "w", "x",
       "translation error: ", "beop", "sang" >>

Code(c) == CHOOSE i \in 1..Len(CodeOrder) : CodeOrder[i] = c

Uppers == << "A", "C", "D", "F", "G", "P", "R" >>
Lowers == << "a", "c", "d", "f", "g", "p", "r" >>

\* str.lower() on one character
LowerChar(c) ==
    IF \E i \in 1..Len(Uppers) : Uppers[i] = c
    THEN Lowers[CHOOSE i \in 1..Len(Uppers) : Uppers[i] = c]
    ELSE c

\* str.lower()
lower(s) == [i \in 1..Len(s) |-> LowerChar(s[i])]

IsSpace(c) == c \in {NL, SP}

RECURSIVE lstrip(_)
lstrip(s) == IF s # <<>> /\ IsSpace(Head(s)) THEN lstrip(Tail(s)) ELSE s

RECURSIVE rstrip(_)
rstrip(s) ==
    IF s # <<>> /\ IsSpace(s[Len(s)]) THEN rstrip(SubSeq(s, 1, Len(s) - 1)) ELSE s

\* str.strip()
strip(s) == rstrip(lstrip(s))

\* Python's `k in t` for strings
Contains(k, t) ==
    \E i \in 0..(Len(t) - Len(k)) : SubSeq(t, i + 1, i + Len(k)) = k

\* Python's `a < b` for strings: lexicographic by code point
RECURSIVE StrLess(_, _)
StrLess(a, b) ==
    IF b = <<>> THEN FALSE
    ELSE IF a = <<>> THEN TRUE
    ELSE IF Head(a) = Head(b) THEN StrLess(Tail(a), Tail(b))
    ELSE Code(Head(a)) < Code(Head(b))

-----------------------------------------------------------------------------
(* Configuration *)

\* FEEDS: name and language of the three feeds configured
FEEDS ==
    << [name |-> "Global Compliance News", language |-> "en"],
       [name |-> "Corporate Compliance Insights", language |-> "en"],
       [name |-> "Lexology", language |-> "en"] >>

\* the Korean feed the source lists, commented out, as the example of a
\* 'ko' entry of FEEDS
LawTimes == [name |-> "LawTimes", language |-> "ko"]

\* the feed descriptions fetch_feed is called with when it is taken alone
CallFeeds == FEEDS \o << LawTimes >>

MOLEG_SOURCE == "MOLEG public data"

\* "https://www.moleg.go.kr"
SITE ==
    << "h", "t", "t", "p", "s", ":", "/", "/", "w", "w", "w", ".",
       "m", "o", "l", "e", "g", ".", "g", "o", ".", "k", "r" >>

\* KEYWORDS_KO: the entry "상법"
KEYWORDS_KO == << << "sang", "beop" >> >>

\* KEYWORDS_EN: the entries "FCPA" and "GDPR"
KEYWORDS_EN == << << "F", "C", "P", "A" >>, << "G", "D", "P", "R" >> >>

-----------------------------------------------------------------------------
(* The processed-identifier file: load_processed and save_processed *)

\* sorted(processed)
RECURSIVE SortedSeq(_)
SortedSeq(S) ==
    IF S = {} THEN <<>>
    ELSE LET m == CHOOSE x \in S : \A y \in S \ {x} : StrLess(x, y)
         IN  << m >> \o SortedSeq(S \ {m})

\* the text the first k write calls of save_processed's loop produce
RECURSIVE WriteLines(_, _)
WriteLines(items, k) ==
    IF k = 0 \/ items = <<>> THEN <<>>
    ELSE Head(items) \o << NL >> \o WriteLines(Tail(items), k - 1)

\* FileText with sorted(processed, reverse=True)
FileTextDescending(processed) ==
    LET s == SortedSeq(processed)
    IN  WriteLines([i \in 1..Len(s) |-> s[Len(s) + 1 - i]], Cardinality(processed))

\* the whole text save_processed writes
FileText(processed) ==
    WriteLines(SortedSeq(processed), Cardinality(processed))

\* `for line in f`: the lines of a text, each with its newline
RECURSIVE FileLines(_, _)
FileLines(text, cur) ==
    IF text = <<>> THEN (IF cur = <<>> THEN <<>> ELSE << cur >>)
    ELSE IF Head(text) = NL
         THEN << Append(cur, NL) >> \o FileLines(Tail(text), <<>>)
         ELSE FileLines(Tail(text), Append(cur, Head(text)))

\* load_processed on a backing file [exists, text]
load_processed(f) ==
    IF f.exists
    THEN LET ls == FileLines(f.text, <<>>)
         IN  { strip(ls[i]) : i \in 1..Len(ls) }
    ELSE {}

-----------------------------------------------------------------------------
(* article_matches and fetch_feed *)

\* article_matches without text.lower() and kw.lower()
article_matchesCaseSensitive(text) ==
    \/ \E i \in 1..Len(KEYWORDS_KO) : Contains(KEYWORDS_KO[i], text)
    \/ \E i \in 1..Len(KEYWORDS_EN) : Contains(KEYWORDS_EN[i], text)

article_matches(text) ==
    LET lower_text == lower(text)
    IN  \/ \E i \in 1..Len(KEYWORDS_KO) : Contains(lower(KEYWORDS_KO[i]), lower_text)
        \/ \E i \in 1..Len(KEYWORDS_EN) : Contains(lower(KEYWORDS_EN[i]), lower_text)

\* Identifier with the operands of `or` in the order link, guid, id
IdentifierLinkFirst(entry) ==
    IF entry.link # <<>> THEN entry.link
    ELSE IF entry.guid # <<>> THEN entry.guid
    ELSE entry.id

\* identifier = entry.get("id") or entry.get("guid") or entry.get("link")
Identifier(entry) ==
    IF entry.id # <<>> THEN entry.id
    ELSE IF entry.guid # <<>> THEN entry.guid
    ELSE entry.link

\* combined = f"{title}\n{summary}"
Combined(entry) == entry.title \o << NL >> \o entry.summary

\* SkipEntry without the membership test
SkipEntryNoDedup(identifier, processed) == identifier = <<>>

\* `if not identifier or identifier in processed: continue`
SkipEntry(identifier, processed) ==
    identifier = <<>> \/ identifier \in processed

\* what translator.translate(combined, dest="ko").text returns when the
\* service answers: a Korean rendering, distinct from its input
Translate(text) == << "[ko]" >> \o text

\* f"(번역 오류: {exc})"
TranslationError == << "(", "translation error: ", "exc", ")" >>

\* Translated with an except clause that falls back to the original text
TranslatedNoPlaceholder(feed, combined, fails) ==
    IF feed.language # "ko" /\ ~fails THEN Translate(combined) ELSE combined

\* lines 280-286; fails: the translation service raises for this call
Translated(feed, combined, fails) ==
    IF feed.language # "ko"
    THEN (IF fails THEN TranslationError ELSE Translate(combined))
    ELSE combined

\* the dictionary appended at lines 288-298
FeedRecord(feed, entry, identifier, translated) ==
    [ id          |-> identifier,
      source      |-> feed.name,
      title       |-> strip(entry.title),
      summary     |-> strip(entry.summary),
      translation |-> strip(translated),
      link        |-> entry.link,
      published   |-> entry.published ]

\* AddProcessed on a copy of the set: the caller's set stays as it was
AddProcessedToCopy(processed, identifier) == processed

\* processed.add(identifier)
AddProcessed(processed, identifier) == processed \cup {identifier}

\* FeedLoop with processed.add(identifier) ahead of the keyword filter
RECURSIVE FeedLoopAddEarly(_, _, _, _, _)
FeedLoopAddEarly(feed, entries, down, i, acc) ==
    IF i > Len(entries) THEN acc
    ELSE LET entry      == entries[i]
             identifier == Identifier(entry)
             fails      == feed.language # "ko" /\ i \in down
         IN  IF SkipEntry(identifier, acc.processed)
             THEN FeedLoopAddEarly(feed, entries, down, i + 1, acc)
             ELSE IF ~article_matches(Combined(entry))
             THEN FeedLoopAddEarly(feed, entries, down, i + 1,
                    [acc EXCEPT !.processed = AddProcessed(@, identifier)])
             ELSE FeedLoopAddEarly(feed, entries, down, i + 1,
                    [ results   |-> Append(acc.results,
                                      FeedRecord(feed, entry, identifier,
                                        Translated(feed, Combined(entry), fails))),
                      processed |-> AddProcessed(acc.processed, identifier),
                      trfail    |-> IF fails THEN acc.trfail \cup {i}
                                    ELSE acc.trfail ])

\* The loop of fetch_feed from entry i on.  down: the positions of the
\* entries for which the translation service raises when it is called.
\* acc: results so far, processed so far, and the positions at which the
\* translation was called and raised.
RECURSIVE FeedLoop(_, _, _, _, _)
FeedLoop(feed, entries, down, i, acc) ==
    IF i > Len(entries) THEN acc
    ELSE LET entry      == entries[i]
             identifier == Identifier(entry)
             fails      == feed.language # "ko" /\ i \in down
         IN  IF SkipEntry(identifier, acc.processed)
             THEN FeedLoop(feed, entries, down, i + 1, acc)
             ELSE IF ~article_matches(Combined(entry))
             THEN FeedLoop(feed, entries, down, i + 1, acc)
             ELSE FeedLoop(feed, entries, down, i + 1,
                    [ results   |-> Append(acc.results,
                                      FeedRecord(feed, entry, identifier,
                                        Translated(feed, Combined(entry), fails))),
                      processed |-> AddProcessed(acc.processed, identifier),
                      trfail    |-> IF fails THEN acc.trfail \cup {i}
                                    ELSE acc.trfail ])

fetch_feed(feed, processed, entries, down) ==
    FeedLoop(feed, entries, down, 1,
             [results |-> <<>>, processed |-> processed, trfail |-> {}])

-----------------------------------------------------------------------------
(* fetch_moleg_public_data *)

\* lines 149-152
FullLink(href) == IF Head(href) = "/" THEN SITE \o href ELSE href

\* MolegMatches with article_matches(title), which searches both lists
MolegMatchesEitherList(title) == article_matches(title)

\* `any(kw in title for kw in KEYWORDS_KO)`
MolegMatches(title) ==
    \E i \in 1..Len(KEYWORDS_KO) : Contains(KEYWORDS_KO[i], title)

\* the dictionary appended at lines 160-170
MolegRecord(title, full_link) ==
    [ id          |-> full_link,
      source      |-> MOLEG_SOURCE,
      title       |-> title,
      summary     |-> title,
      translation |-> title,
      link        |-> full_link,
      published   |-> <<>> ]

\* The loop over soup.select(...) from anchor i on; an anchor is
\* [title, href], href empty when the attribute is absent or empty.
RECURSIVE MolegLoop(_, _, _)
MolegLoop(links, i, acc) ==
    IF i > Len(links) THEN acc
    ELSE LET title == links[i].title
             href  == links[i].href
         IN  IF href = <<>> THEN MolegLoop(links, i + 1, acc)
             ELSE IF FullLink(href) \in acc.processed
             THEN MolegLoop(links, i + 1, acc)
             ELSE IF ~MolegMatches(title)
             THEN MolegLoop(links, i + 1, acc)
             ELSE MolegLoop(links, i + 1,
                    [ results   |-> Append(acc.results,
                                      MolegRecord(title, FullLink(href))),
                      processed |-> AddProcessed(acc.processed, FullLink(href)),
                      trfail    |-> {} ])

fetch_moleg_public_data(processed, links) ==
    MolegLoop(links, 1, [results |-> <<>>, processed |-> processed, trfail |-> {}])

-----------------------------------------------------------------------------
(* The digest: the sort of run_once and build_digest *)

\* insert x behind every element whose key is not smaller than x's
RECURSIVE InsertDesc(_, _)
InsertDesc(x, s) ==
    IF s = <<>> THEN << x >>
    ELSE IF StrLess(Head(s).published, x.published) THEN << x >> \o s
    ELSE << Head(s) >> \o InsertDesc(x, Tail(s))

RECURSIVE SortFrom(_, _)
SortFrom(s, acc) ==
    IF s = <<>> THEN acc ELSE SortFrom(Tail(s), InsertDesc(Head(s), acc))

\* SortByPublished without reverse=True
SortByPublishedAscending(entries) ==
    LET s == SortFrom(entries, <<>>)
    IN  [i \in 1..Len(s) |-> s[Len(s) + 1 - i]]

\* all_entries.sort(key=lambda x: x.get("published", ""), reverse=True):
\* stable, descending
SortByPublished(entries) == SortFrom(entries, <<>>)

Line(tag, n, text) == [tag |-> tag, n |-> n, text |-> text]

\* the lines build_digest appends for entry idx
ItemLines(idx, item) ==
    << Line("item", idx, << item.source >> \o item.title) >>
    \o (IF item.published # <<>>
        THEN << Line("published", idx, item.published) >> ELSE <<>>)
    \o << Line("summary", idx, item.summary) >>
    \o (IF item.translation # <<>> /\ item.translation # item.summary
        THEN << Line("translation", idx, item.translation) >> ELSE <<>>)
    \o (IF item.link # <<>> THEN << Line("link", idx, item.link) >> ELSE <<>>)
    \o << Line("blank", idx, <<>>) >>

RECURSIVE DigestFrom(_, _)
DigestFrom(entries, idx) ==
    IF idx > Len(entries) THEN <<>>
    ELSE ItemLines(idx, entries[idx]) \o DigestFrom(entries, idx + 1)

\* the list of lines build_digest joins; the timestamp of the header is
\* left out
build_digest(entries) ==
    << Line("header", 0, <<>>), Line("rule", 0, <<>>) >> \o DigestFrom(entries, 1)

-----------------------------------------------------------------------------
(* What the collaborators can return *)

\* "Gdpr fine": a foreign keyword in mixed case; id, guid and link all set
EntryA ==
    [ id |-> << "a" >>, guid |-> << "g" >>, link |-> << "l" >>,
      title |-> << "G", "d", "p", "r" >>, summary |-> << "x" >>,
      published |-> << "2" >> ]

\* no keyword; identified by its link only
EntryB ==
    [ id |-> <<>>, guid |-> <<>>, link |-> << "b" >>,
      title |-> << "n", "e", "w", "s" >>, summary |-> <<>>,
      published |-> <<>> ]

\* the same article as EntryB, identified by guid, now with a native
\* keyword in its summary and no title
EntryC ==
    [ id |-> <<>>, guid |-> << "b" >>, link |-> << "l" >>,
      title |-> <<>>, summary |-> << "sang", "beop" >>,
      published |-> << "1", "2" >> ]

\* a keyword but no id, guid or link
EntryD ==
    [ id |-> <<>>, guid |-> <<>>, link |-> <<>>,
      title |-> << "F", "C", "P", "A" >>, summary |-> << "s" >>,
      published |-> << "1" >> ]

EntryPool == { EntryA, EntryB, EntryC, EntryD }

\* anchors of the scraped page: a root-relative link, a link whose href
\* attribute ends in a blank, a title with a foreign keyword only, and an
\* anchor without href
LinkM == [ title |-> << "sang", "beop", SP, "1" >>, href |-> << "/", "m" >> ]
LinkW == [ title |-> << "sang", "beop", SP, "2" >>, href |-> << "/", "w", SP >> ]
LinkE == [ title |-> << "G", "D", "P", "R" >>, href |-> << "e" >> ]
LinkN == [ title |-> << "sang", "beop" >>, href |-> <<>> ]

LinkPool == { LinkM, LinkW, LinkE, LinkN }

SeqsUpTo(S, n) == UNION { [1..k -> S] : k \in 0..n }

\* the positions of the entries fetch_feed can call the translator for:
\* the translation service's answer matters for no other entry
Translatable(feed, entries) ==
    IF feed.language = "ko" THEN {}
    ELSE { i \in 1..Len(entries) : article_matches(Combined(entries[i])) }

-----------------------------------------------------------------------------
(* State *)

VARIABLES
    file,         \* processed_items.txt: [exists, text]
    pc,           \* where run_once is
    run,          \* number of the current invocation of run_once
    feed_idx,     \* position of the `for feed in FEEDS` loop
    processed,    \* the local set `processed` of run_once
    all_entries,  \* the local list `all_entries` of run_once
    body,         \* the digest text handed to send_email in this run
    \* history of the current run
    loaded,       \* what load_processed returned
    offered,      \* whether the sources returned identifiers: "none", "known"
                  \* (every one of them was in loaded) or "new"
    got,          \* per source handled so far: the list it returned
    failed,       \* the sources whose fetch raised
    call,         \* a source call taken alone: its input and what happened
    saved,        \* save_processed has returned
    sends,        \* calls of send_email
    \* history across runs
    everEmitted,  \* identifiers of the records put in all_entries so far
    sendFailed    \* identifiers of the digests whose send_email raised

vars ==
    << file, pc, run, feed_idx, processed, all_entries, body, loaded, offered,
       got, failed, call, saved, sends, everEmitted, sendFailed >>

runVars == << run, everEmitted, sendFailed >>

NoCall ==
    [ src |-> 0, entries |-> <<>>, down |-> {}, before |-> {}, trfail |-> {} ]

NSources == Len(FEEDS) + 1

Terminal == { "done", "done_empty", "error_store", "error_delivery" }

Ids(records) == { records[i].id : i \in 1..Len(records) }

Init ==
    /\ file = [exists |-> FALSE, text |-> <<>>]
    /\ pc = "start"
    /\ run = 1
    /\ feed_idx = 1
    /\ processed = {}
    /\ all_entries = <<>>
    /\ body = <<>>
    /\ loaded = {}
    /\ offered = "none"
    /\ got = <<>>
    /\ failed = {}
    /\ call = NoCall
    /\ saved = FALSE
    /\ sends = 0
    /\ everEmitted = {}
    /\ sendFailed = {}

-----------------------------------------------------------------------------
(* run_once, step by step *)

\* processed = load_processed()
LoadProcessed ==
    /\ pc = "start"
    /\ \E stored \in { load_processed(file) } :
          /\ processed' = stored
          /\ loaded' = stored
    /\ pc' = "feeds"
    /\ UNCHANGED << file, feed_idx, all_entries, body, offered, got, failed,
                    call, saved, sends >>
    /\ UNCHANGED runVars

\* open() or the read of the existing file raises: run_once ends with it
LoadProcessedRaises ==
    /\ pc = "start"
    /\ file.exists
    /\ pc' = "error_store"
    /\ UNCHANGED << file, feed_idx, processed, all_entries, body, loaded,
                    offered, got, failed, call, saved, sends >>
    /\ UNCHANGED runVars

\* the step of the loop over FEEDS behind a source call
AfterSource(src) ==
    IF src < Len(FEEDS)
    THEN pc' = "feeds" /\ feed_idx' = src + 1
    ELSE IF src = Len(FEEDS)
    THEN pc' = "moleg" /\ feed_idx' = src + 1
    ELSE pc' = "save" /\ feed_idx' = feed_idx

\* the history of the identifiers returned, after a source returned ids
Offer(ids) ==
    IF ids = {} THEN offered
    ELSE IF ids \subseteq loaded /\ offered # "new" THEN "known"
    ELSE "new"

\* all_entries.extend(entries), with the history of what was emitted
Extend(results) ==
    /\ all_entries' = all_entries \o results
    /\ everEmitted' = everEmitted \cup Ids(results)

\* lines 375-377: fetch_feed returns
FetchFeed ==
    /\ pc = "feeds"
    /\ \E entries \in SeqsUpTo(EntryPool, MaxEntries) :
       \E down \in SUBSET Translatable(FEEDS[feed_idx], entries) :
       \E r \in { fetch_feed(FEEDS[feed_idx], processed, entries, down) } :
              /\ processed' = r.processed
              /\ Extend(r.results)
              /\ got' = Append(got, r.results)
              /\ offered' = Offer({ Identifier(entries[i]) :
                                       i \in 1..Len(entries) } \ {<<>>})
    /\ AfterSource(feed_idx)
    /\ UNCHANGED << file, body, loaded, failed, call, saved, sends, run,
                    sendFailed >>

\* FetchFeedRaises without the try/except of run_once: the exception ends
\* the run
FetchFeedRaisesPropagates ==
    /\ pc = "feeds"
    /\ got' = Append(got, <<>>)
    /\ failed' = failed \cup {feed_idx}
    /\ pc' = "error_fetch"
    /\ UNCHANGED << file, feed_idx, processed, all_entries, body, loaded,
                    offered, call, saved, sends >>
    /\ UNCHANGED runVars

\* FetchFeedRaises with all_entries.extend(entries) behind the try/except:
\* the list of the feed before is appended once more
FetchFeedRaisesStale ==
    /\ pc = "feeds"
    /\ all_entries' = all_entries \o (IF got = <<>> THEN <<>> ELSE got[Len(got)])
    /\ got' = Append(got, <<>>)
    /\ failed' = failed \cup {feed_idx}
    /\ AfterSource(feed_idx)
    /\ UNCHANGED << file, processed, body, loaded, offered, call, saved, sends >>
    /\ UNCHANGED runVars

\* lines 378-380: feedparser.parse raises inside fetch_feed and run_once
\* catches it
FetchFeedRaises ==
    /\ pc = "feeds"
    /\ got' = Append(got, <<>>)
    /\ failed' = failed \cup {feed_idx}
    /\ AfterSource(feed_idx)
    /\ UNCHANGED << file, processed, all_entries, body, loaded, offered, call,
                    saved, sends >>
    /\ UNCHANGED runVars

\* lines 382-383: the page is fetched and parsed
FetchMoleg ==
    /\ pc = "moleg"
    /\ \E links \in SeqsUpTo(LinkPool, MaxLinks) :
       \E r \in { fetch_moleg_public_data(processed, links) } :
              /\ processed' = r.processed
              /\ Extend(r.results)
              /\ got' = Append(got, r.results)
              /\ offered' = Offer({ FullLink(links[i].href) :
                         i \in { j \in 1..Len(links) : links[j].href # <<>> } })
    /\ AfterSource(NSources)
    /\ UNCHANGED << file, body, loaded, failed, call, saved, sends, run,
                    sendFailed >>

\* lines 136-139 and 172-175: requests.get, raise_for_status or the parse
\* raises; fetch_moleg_public_data catches it and returns its empty list
FetchMolegRaises ==
    /\ pc = "moleg"
    /\ Extend(<<>>)
    /\ got' = Append(got, <<>>)
    /\ failed' = failed \cup {NSources}
    /\ AfterSource(NSources)
    /\ UNCHANGED << file, processed, body, loaded, offered, call, saved, sends,
                    run, sendFailed >>

\* save_processed(processed)
SaveProcessed ==
    /\ pc = "save"
    /\ file' = [exists |-> TRUE, text |-> FileText(processed)]
    /\ saved' = TRUE
    /\ pc' = "saved"
    /\ UNCHANGED << feed_idx, processed, all_entries, body, loaded, offered,
                    got, failed, call, sends >>
    /\ UNCHANGED runVars

\* open(PROCESSED_FILE, "w") raises: the file stays as it was
SaveProcessedOpenRaises ==
    /\ pc = "save"
    /\ pc' = "error_store"
    /\ UNCHANGED << file, feed_idx, processed, all_entries, body, loaded,
                    offered, got, failed, call, saved, sends >>
    /\ UNCHANGED runVars

\* SaveProcessedWriteRaises with the exception swallowed: run_once goes on
SaveProcessedWriteRaisesSwallowed ==
    /\ pc = "save"
    /\ \E text \in { FileText(processed) } :
       \E k \in 0..(Len(text) - 1) :
          file' = [exists |-> TRUE, text |-> SubSeq(text, 1, k)]
    /\ pc' = "saved"
    /\ UNCHANGED << feed_idx, processed, all_entries, body, loaded, offered,
                    got, failed, call, saved, sends >>
    /\ UNCHANGED runVars

\* a write, the flush or the close raises (disk full, quota, size limit):
\* the file was truncated by open and holds the first k characters of the
\* text, cut inside a line or at a line end
SaveProcessedWriteRaises ==
    /\ pc = "save"
    /\ \E text \in { FileText(processed) } :
       \E k \in 0..(Len(text) - 1) :
          file' = [exists |-> TRUE, text |-> SubSeq(text, 1, k)]
    /\ pc' = "error_store"
    /\ UNCHANGED << feed_idx, processed, all_entries, body, loaded, offered,
                    got, failed, call, saved, sends >>
    /\ UNCHANGED runVars

\* Render without `if all_entries:`
RenderAlways ==
    /\ pc = "saved"
    /\ \E sorted \in { SortByPublished(all_entries) } :
          /\ all_entries' = sorted
          /\ body' = build_digest(sorted)
    /\ sends' = sends + 1

\* lines 386-394 up to the call of send_email
Render ==
    /\ pc = "saved"
    /\ all_entries # <<>>
    /\ \E sorted \in { SortByPublished(all_entries) } :
          /\ all_entries' = sorted
          /\ body' = build_digest(sorted)
    /\ sends' = sends + 1

\* send_email returns
SendEmail ==
    /\ Render
    /\ pc' = "done"
    /\ UNCHANGED << file, feed_idx, processed, loaded, offered, got, failed,
                    call, saved, run, everEmitted, sendFailed >>

\* send_email raises (configuration missing, or the transport fails)
SendEmailRaises ==
    /\ Render
    /\ pc' = "error_delivery"
    /\ sendFailed' = sendFailed \cup Ids(all_entries)
    /\ UNCHANGED << file, feed_idx, processed, loaded, offered, got, failed,
                    call, saved, run, everEmitted >>

\* lines 396-397: nothing matched
NoNewArticles ==
    /\ pc = "saved"
    /\ all_entries = <<>>
    /\ pc' = "done_empty"
    /\ UNCHANGED << file, feed_idx, processed, all_entries, body, loaded,
                    offered, got, failed, call, saved, sends >>
    /\ UNCHANGED runVars

\* the scheduler invokes run_once again: a new process image or a new call,
\* in both of which every local starts afresh
NextRun ==
    /\ pc \in Terminal
    /\ run < MaxRuns
    /\ run' = run + 1
    /\ pc' = "start"
    /\ feed_idx' = 1
    /\ processed' = {}
    /\ all_entries' = <<>>
    /\ body' = <<>>
    /\ loaded' = {}
    /\ offered' = "none"
    /\ got' = <<>>
    /\ failed' = {}
    /\ call' = NoCall
    /\ saved' = FALSE
    /\ sends' = 0
    /\ UNCHANGED << file, everEmitted, sendFailed >>

Next ==
    \/ LoadProcessed
    \/ LoadProcessedRaises
    \/ FetchFeed
    \/ FetchFeedRaises
    \/ FetchMoleg
    \/ FetchMolegRaises
    \/ SaveProcessed
    \/ SaveProcessedOpenRaises
    \/ SaveProcessedWriteRaises
    \/ SendEmail
    \/ SendEmailRaises
    \/ NoNewArticles
    \/ NextRun

Spec == Init /\ [][Next]_vars

\* identifiers earlier runs can have written to the backing file
StartIds == { Identifier(EntryA), FullLink(LinkM.href), FullLink(LinkW.href) }

\* identifiers of a file that a failed save_processed left cut
CutIds == { Identifier(EntryA), Identifier(EntryB) }

\* the backing file at the start of one invocation of run_once: missing, as
\* save_processed left it, or as a save_processed that raised left it
StartFiles ==
    { [exists |-> FALSE, text |-> <<>>] }
        \cup { [exists |-> TRUE, text |-> FileText(S)] : S \in SUBSET StartIds }
        \cup { [exists |-> TRUE, text |-> SubSeq(FileText(CutIds), 1, k)] :
                 k \in 0..Len(FileText(CutIds)) }

InitOnce ==
    /\ file \in StartFiles
    /\ pc = "start"
    /\ run = 1
    /\ feed_idx = 1
    /\ processed = {}
    /\ all_entries = <<>>
    /\ body = <<>>
    /\ loaded = {}
    /\ offered = "none"
    /\ got = <<>>
    /\ failed = {}
    /\ call = NoCall
    /\ saved = FALSE
    /\ sends = 0
    /\ everEmitted = {}
    /\ sendFailed = {}

\* one invocation of run_once
NextOnce ==
    \/ LoadProcessed
    \/ LoadProcessedRaises
    \/ FetchFeed
    \/ FetchFeedRaises
    \/ FetchMoleg
    \/ FetchMolegRaises
    \/ SaveProcessed
    \/ SaveProcessedOpenRaises
    \/ SaveProcessedWriteRaises
    \/ SendEmail
    \/ SendEmailRaises
    \/ NoNewArticles

\* one invocation of run_once from any of StartFiles
SpecOnce == InitOnce /\ [][NextOnce]_vars

\* the steps of run_once that make no network call: the reads and writes
\* of the local file and the print of line 397
BoundedStep ==
    \/ LoadProcessed
    \/ LoadProcessedRaises
    \/ SaveProcessed
    \/ SaveProcessedOpenRaises
    \/ SaveProcessedWriteRaises
    \/ NoNewArticles

\* run_once is one thread of control: the statement it is at is executed.
\* feedparser.parse (line 264), translator.translate (line 282) and
\* smtplib.SMTP_SSL (line 364) are called without a timeout, and the
\* timeout=10 of requests.get (line 137) limits the connect and each single
\* read, not the call, so a feed, page or mail step may never end: no
\* fairness is stated for FetchFeed, FetchFeedRaises, FetchMoleg,
\* FetchMolegRaises, SendEmail and SendEmailRaises.
SpecLive == InitOnce /\ [][NextOnce]_vars /\ WF_vars(BoundedStep)

\* run_once with a backing file that can always be read and written
NextStoreOk ==
    \/ LoadProcessed
    \/ FetchFeed
    \/ FetchFeedRaises
    \/ FetchMoleg
    \/ FetchMolegRaises
    \/ SaveProcessed
    \/ SendEmail
    \/ SendEmailRaises
    \/ NoNewArticles
    \/ NextRun

SpecStoreOk == Init /\ [][NextStoreOk]_vars

-----------------------------------------------------------------------------
(* One source call taken alone: fetch_feed or fetch_moleg_public_data on   *)
(* any input and any set of processed identifiers, then build_digest on    *)
(* what it returned.                                                       *)

\* the identifiers the pools can produce
PoolIds ==
    ({ Identifier(e) : e \in EntryPool } \ {<<>>})
        \cup { FullLink(l.href) : l \in { x \in LinkPool : x.href # <<>> } }

\* the calls taken alone: fetch_feed on each of CallFeeds, then
\* fetch_moleg_public_data
NCalls == Len(CallFeeds) + 1

InitFetch ==
    /\ pc = "call"
    /\ \E src \in 1..NCalls, before \in SUBSET PoolIds :
       \E entries \in (IF src <= Len(CallFeeds)
                        THEN SeqsUpTo(EntryPool, MaxEntries)
                        ELSE SeqsUpTo(LinkPool, MaxLinks)) :
       \E down \in SUBSET (IF src <= Len(CallFeeds)
                            THEN Translatable(CallFeeds[src], entries) ELSE {}) :
          /\ call = [ src |-> src, entries |-> entries, down |-> down,
                      before |-> before, trfail |-> {} ]
          /\ processed = before
    /\ file = [exists |-> FALSE, text |-> <<>>]
    /\ run = 1
    /\ feed_idx = 1
    /\ all_entries = <<>>
    /\ body = <<>>
    /\ loaded = {}
    /\ offered = "none"
    /\ got = <<>>
    /\ failed = {}
    /\ saved = FALSE
    /\ sends = 0
    /\ everEmitted = {}
    /\ sendFailed = {}

fetchFrame ==
    << file, run, feed_idx, loaded, offered, got, failed, saved, sends,
       everEmitted, sendFailed >>

CallFetchFeed ==
    /\ pc = "call"
    /\ call.src <= Len(CallFeeds)
    /\ \E r \in { fetch_feed(CallFeeds[call.src], processed, call.entries,
                              call.down) } :
          /\ all_entries' = r.results
          /\ processed' = r.processed
          /\ call' = [call EXCEPT !.trfail = r.trfail]
    /\ pc' = "returned"
    /\ UNCHANGED body
    /\ UNCHANGED fetchFrame

CallFetchMoleg ==
    /\ pc = "call"
    /\ call.src = NCalls
    /\ \E r \in { fetch_moleg_public_data(processed, call.entries) } :
          /\ all_entries' = r.results
          /\ processed' = r.processed
    /\ pc' = "returned"
    /\ UNCHANGED << body, call >>
    /\ UNCHANGED fetchFrame

CallBuildDigest ==
    /\ pc = "returned"
    /\ body' = build_digest(all_entries)
    /\ pc' = "rendered"
    /\ UNCHANGED << processed, all_entries, call >>
    /\ UNCHANGED fetchFrame

NextFetch ==
    \/ CallFetchFeed
    \/ CallFetchMoleg
    \/ CallBuildDigest

SpecFetch == InitFetch /\ [][NextFetch]_vars

-----------------------------------------------------------------------------
(* The backing file taken alone: load_processed on any text found on disk, *)
(* save_processed of the set it returned, and load_processed again.        *)

\* the characters of a file found on disk
TextChars == { NL, SP, "a", "b" }

InitStore ==
    /\ pc = "found"
    /\ \/ file = [exists |-> FALSE, text |-> <<>>]
       \/ \E text \in SeqsUpTo(TextChars, MaxText) :
             file = [exists |-> TRUE, text |-> text]
    /\ processed = {}
    /\ call = NoCall
    /\ run = 1
    /\ feed_idx = 1
    /\ all_entries = <<>>
    /\ body = <<>>
    /\ loaded = {}
    /\ offered = "none"
    /\ got = <<>>
    /\ failed = {}
    /\ saved = FALSE
    /\ sends = 0
    /\ everEmitted = {}
    /\ sendFailed = {}

storeFrame ==
    << run, feed_idx, all_entries, body, offered, got, failed, call, sends,
       everEmitted, sendFailed >>

\* the first load_processed(): its result is kept in loaded
StoreLoad ==
    /\ pc = "found"
    /\ \E stored \in { load_processed(file) } :
          /\ processed' = stored
          /\ loaded' = stored
    /\ pc' = "first_load"
    /\ UNCHANGED << file, saved >>
    /\ UNCHANGED storeFrame

\* save_processed(processed) on the set just loaded
StoreSave ==
    /\ pc = "first_load"
    /\ file' = [exists |-> TRUE, text |-> FileText(processed)]
    /\ saved' = TRUE
    /\ processed' = {}
    /\ pc' = "written"
    /\ UNCHANGED loaded
    /\ UNCHANGED storeFrame

\* the second load_processed(): its result is in processed
StoreReload ==
    /\ pc = "written"
    /\ processed' = load_processed(file)
    /\ pc' = "second_load"
    /\ UNCHANGED << file, loaded, saved >>
    /\ UNCHANGED storeFrame

NextStore ==
    \/ StoreLoad
    \/ StoreSave
    \/ StoreReload

SpecStore == InitStore /\ [][NextStore]_vars

-----------------------------------------------------------------------------
(* Properties *)

Range(q) == { q[i] : i \in 1..Len(q) }

\* the records a step appends to all_entries
Appended == SubSeq(all_entries', Len(all_entries) + 1, Len(all_entries'))

\* a step in which a source returns into run_once
SourceStep == pc \in {"feeds", "moleg"}

\* the raw lines of the backing file, without their newline
StoredLines ==
    LET ls == FileLines(file.text, <<>>)
    IN  { SubSeq(ls[i], 1, Len(ls[i]) - 1) : i \in 1..Len(ls) }

\* C1: across the runs that share processed_items.txt, and within one run
\* across the feeds and the scraped page, no identifier is put in
\* all_entries twice: a source never returns a record whose identifier was
\* returned before, nor two records with one identifier.
C1_EmittedOnce ==
    [][ SourceStep =>
          /\ Ids(Appended) \cap everEmitted = {}
          /\ Cardinality(Ids(Appended)) = Len(Appended) ]_vars

\* C2: send_email is called only after save_processed returned; when it
\* raises, the identifiers of its digest are lines of the file, and no later
\* step returns a record with one of them or hands one of them to
\* send_email again.
C2_SavedBeforeSend ==
    [][ /\ sends' > sends => saved
        /\ pc' = "error_delivery" => Ids(all_entries') \subseteq StoredLines'
        /\ SourceStep => Ids(Appended) \cap sendFailed = {}
        /\ sends' > sends => Ids(all_entries) \cap sendFailed = {} ]_vars


\* the digest has the numbered block of record k of all_entries
InDigest(k) ==
    Line("item", k, << all_entries[k].source >> \o all_entries[k].title)
        \in Range(body)

\* C3: when the fetch of a feed raises, run_once goes on with the next
\* source, and every record any source returned in the run is in the list
\* build_digest renders and send_email sends.
C3_FailureIsolation ==
    /\ \A s \in failed \cap (1..Len(FEEDS)) :
          Len(got) = s =>
             /\ pc = (IF s < Len(FEEDS) THEN "feeds" ELSE "moleg")
             /\ feed_idx = s + 1
    /\ sends > 0 =>
          \A s \in 1..NSources : \A i \in 1..Len(got[s]) :
             \E k \in 1..Len(all_entries) :
                all_entries[k] = got[s][i] /\ InDigest(k)

\* a digest was sent in a run whose first feed raised and whose other
\* sources returned records
C3_Witness ==
    /\ sends > 0
    /\ 1 \in failed
    /\ got[2] # <<>>
    /\ got[3] # <<>>
    /\ got[NSources] # <<>>

\* C4: the step in which a source's fetch fails adds no record to
\* all_entries and no identifier to processed, the source's list is empty,
\* and run_once is then at the next source or at save_processed.
C4_FailedSourceContributesNothing ==
    [][ \A s \in failed' \ failed :
          /\ all_entries' = all_entries
          /\ processed' = processed
          /\ got'[s] = <<>>
          /\ pc' \in {"feeds", "moleg", "save"} ]_vars

\* the scrape and a feed failed in a run that still sent a digest
C4_Witness ==
    /\ NSources \in failed
    /\ 2 \in failed
    /\ pc = "done"

\* C5: with no record in all_entries send_email is not called and no digest
\* is built; a run that ends with "No new articles" has saved the file, and
\* a run that fetched every source and matched nothing ends there or with
\* the error of save_processed.
C5_NoDispatchOnEmpty ==
    /\ all_entries = <<>> => sends = 0 /\ body = <<>>
    /\ pc = "done_empty" =>
          /\ all_entries = <<>>
          /\ saved
          /\ file = [exists |-> TRUE, text |-> FileText(processed)]
    /\ (pc \in Terminal /\ Len(got) = NSources /\ all_entries = <<>>) =>
          pc \in {"done_empty", "error_store"}

\* a run whose sources returned entries, none of them matched
C5_Witness ==
    /\ pc = "done_empty"
    /\ offered = "new"
    /\ failed = {}

\* C6: as long as every identifier the sources returned in a run was in the
\* loaded set, the run has no record, processed is the loaded set, nothing
\* is sent, and the file it saves loads as the same set.
C6_DedupIdempotence ==
    offered = "known" =>
       /\ all_entries = <<>>
       /\ processed = loaded
       /\ sends = 0
       /\ pc \notin {"done", "error_delivery"}
       /\ saved => load_processed(file) = loaded

\* a second run that was offered known identifiers only and ended empty
C6_Witness ==
    /\ offered = "known"
    /\ pc = "done_empty"
    /\ Cardinality(loaded) >= 2

\* the feeds configured with the target language
KoSources ==
    { CallFeeds[i].name :
        i \in { j \in 1..Len(CallFeeds) : CallFeeds[j].language = "ko" } }

\* C8: a record of a feed whose language is 'ko' has translation equal to
\* summary, and the digest has no translation line in its block.
C8_NativeFeedNoTranslation ==
    \A k \in 1..Len(all_entries) :
       all_entries[k].source \in KoSources =>
          /\ all_entries[k].translation = all_entries[k].summary
          /\ \A j \in 1..Len(body) :
                ~(body[j].tag = "translation" /\ body[j].n = k)

\* C10: a run that ended with a store error called send_email never and
\* built no digest; send_email is called only after save_processed
\* returned; while the file is missing the loaded set is empty, and a store
\* error can then only come from save_processed.
C10_StoreFailureAborts ==
    /\ pc = "error_store" => sends = 0 /\ body = <<>>
    /\ sends > 0 => saved
    /\ (~file.exists /\ pc # "start") =>
          /\ loaded = {}
          /\ pc = "error_store" => Len(got) = NSources

\* save_processed raised in a run that had matched records
C10_Witness ==
    /\ pc = "error_store"
    /\ all_entries # <<>>
    /\ ~saved

\* the numbered blocks of the digest
Blocks == { body[j].n : j \in { i \in 1..Len(body) : body[i].tag = "item" } }

\* the published string block k of the digest shows: build_digest prints
\* no such line for an empty one
BlockPublished(k) ==
    IF \E j \in 1..Len(body) : body[j].tag = "published" /\ body[j].n = k
    THEN body[CHOOSE j \in 1..Len(body) :
                 body[j].tag = "published" /\ body[j].n = k].text
    ELSE <<>>

\* C14: the digest handed to send_email has one block per record, numbered
\* from 1 in the order of the text; the published string of a block is not
\* smaller, as a string, than that of the next block, and behind a block
\* without published string every block is without one.
C14_DigestOrder ==
    sends > 0 =>
       /\ Blocks = 1..Len(all_entries)
       /\ \A i, j \in 1..Len(body) :
             (i < j /\ body[i].tag = "item" /\ body[j].tag = "item")
                => body[i].n < body[j].n
       /\ \A k \in Blocks : BlockPublished(k) = all_entries[k].published
       /\ \A k \in Blocks : (k + 1) \in Blocks =>
             /\ ~StrLess(BlockPublished(k), BlockPublished(k + 1))
             /\ BlockPublished(k) = <<>> => BlockPublished(k + 1) = <<>>

\* a digest of three records that the sources returned in the order
\* "12", "2", "" and that was sent in the order "2", "12", ""
C14_Witness ==
    /\ pc = "done"
    /\ Len(got) = NSources
    /\ Len(got[1]) = 1 /\ got[1][1].published = << "1", "2" >>
    /\ Len(got[2]) = 1 /\ got[2][1].published = << "2" >>
    /\ Len(got[3]) = 0
    /\ Len(got[NSources]) = 1
    /\ BlockPublished(1) = << "2" >>
    /\ BlockPublished(2) = << "1", "2" >>
    /\ BlockPublished(3) = <<>>

\* C17: from load_processed on, and so when save_processed is called, the
\* identifiers the run added to processed are the identifiers of the
\* records in all_entries, whichever sources failed: processed is the
\* loaded set plus those, none of them was loaded, no two records share
\* one, and what save_processed writes is that set.
C17_AddedEqualsAccumulated ==
    /\ processed \ loaded = Ids(all_entries)
    /\ loaded \subseteq processed
    /\ Cardinality(Ids(all_entries)) = Len(all_entries)
    /\ (saved /\ pc # "start") => StoredLines = loaded \cup Ids(all_entries)

\* save_processed is about to be called in a run that loaded identifiers,
\* in which the first feed failed and the other two feeds returned records
C17_Witness ==
    /\ pc = "save"
    /\ failed = {1}
    /\ loaded # {}
    /\ got[2] # <<>>
    /\ got[3] # <<>>
    /\ Cardinality(processed \ loaded) = 2

\* C18: within a run processed never loses an identifier; the lines
\* save_processed leaves in the file include the loaded set; and a line
\* that is in the file stays in it through every later step of every run.
C18_StoreOnlyGrows ==
    [][ /\ (pc # "start" /\ pc' # "start") => processed \subseteq processed'
        /\ (pc = "save" /\ pc' = "saved") => loaded \subseteq StoredLines'
        /\ StoredLines \subseteq StoredLines' ]_vars

\* one step of run_once along the path load, every feed in turn, the
\* scraped page, save, then either "No new articles" or digest and send
PathStep ==
    /\ pc = "start" => pc' \in {"feeds", "error_store"}
    /\ pc = "feeds" =>
          \/ pc' = "feeds" /\ feed_idx < Len(FEEDS) /\ feed_idx' = feed_idx + 1
          \/ pc' = "moleg" /\ feed_idx = Len(FEEDS)
    /\ pc = "moleg" => pc' = "save"
    /\ pc \in {"feeds", "moleg"} => Len(got') = Len(got) + 1
    /\ pc = "save" => pc' \in {"saved", "error_store"} /\ Len(got) = NSources
    /\ pc = "saved" =>
          IF all_entries = <<>> THEN pc' = "done_empty" /\ sends' = sends
          ELSE /\ pc' \in {"done", "error_delivery"}
               /\ sends' = sends + 1
               /\ body' = build_digest(all_entries')
    /\ pc \in Terminal => FALSE

\* C12: every step of run_once is a step of the one path LOAD_STORE, the
\* sources in turn, PERSIST_STORE, then DONE_EMPTY or RENDER, DISPATCH and
\* DONE; a run ends abnormally only out of load_processed, save_processed
\* or send_email, and the step in which a source's fetch fails never ends
\* it; and every run that starts ends, whatever the feed, translation and
\* mail servers do.
C12_LinearPathTerminates ==
    /\ [][ /\ PathStep
           /\ pc' = "error_store" => pc \in {"start", "save"}
           /\ pc' = "error_delivery" => pc = "saved"
           /\ failed' \ failed # {} => pc' \in {"feeds", "moleg", "save"} ]_vars
    /\ [](pc \in { "start", "feeds", "moleg", "save", "saved" } \cup Terminal)
    /\ (pc \notin Terminal) ~> (pc \in Terminal)

-----------------------------------------------------------------------------
(* Properties of one source call *)

IsFeedCall == call.src \in 1..Len(CallFeeds)

\* the identifier the called source computes for entry e of its input
CallIdentifier(e) ==
    IF IsFeedCall THEN Identifier(e)
    ELSE IF e.href = <<>> THEN <<>> ELSE FullLink(e.href)

\* the keyword filter the called source applies to entry e
CallMatches(e) ==
    IF IsFeedCall THEN article_matches(Combined(e)) ELSE MolegMatches(e.title)

\* the positions of the input whose entry has an identifier that was not in
\* the store and passes the keyword filter
NewMatching ==
    { i \in 1..Len(call.entries) :
        /\ CallIdentifier(call.entries[i]) # <<>>
        /\ CallIdentifier(call.entries[i]) \notin call.before
        /\ CallMatches(call.entries[i]) }

\* C7: the identifiers a source call adds to processed are those of the
\* entries that were not in the store and passed the keyword filter, nothing
\* is removed, and the identifier of an entry that fails the filter is in
\* the store after the call only if it was before or another entry with the
\* same identifier passed.
C7_AddedOnlyWhenMatched ==
    pc \in {"returned", "rendered"} =>
       /\ call.before \subseteq processed
       /\ processed \ call.before
             = { CallIdentifier(call.entries[i]) : i \in NewMatching }
       /\ \A i \in 1..Len(call.entries) :
             (/\ ~CallMatches(call.entries[i])
              /\ \A j \in NewMatching :
                    CallIdentifier(call.entries[j]) # CallIdentifier(call.entries[i]))
             => (CallIdentifier(call.entries[i]) \in processed
                    <=> CallIdentifier(call.entries[i]) \in call.before)

\* a feed returned EntryB, which fails the filter, behind a matching entry:
\* one identifier was added and EntryB's was not
C7_Witness ==
    /\ pc = "returned"
    /\ IsFeedCall
    /\ Len(call.entries) = 2
    /\ call.entries[2] = EntryB
    /\ processed # call.before
    /\ Identifier(EntryB) \notin processed

\* C9: for every entry at which the translator was called and raised,
\* fetch_feed returned a record with that entry's identifier and the error
\* placeholder as translation, the identifier is in processed, and every
\* later entry that is new and matches has its record too.
C9_TranslationFailureContained ==
    (pc \in {"returned", "rendered"} /\ IsFeedCall) =>
       \A i \in call.trfail :
          /\ \E k \in 1..Len(all_entries) :
                /\ all_entries[k].id = Identifier(call.entries[i])
                /\ all_entries[k].translation = TranslationError
          /\ Identifier(call.entries[i]) \in processed
          /\ \A j \in NewMatching :
                j > i => Identifier(call.entries[j]) \in Ids(all_entries)

\* the translator raised at the first of two matching entries of a foreign
\* feed and answered at the second
C9_Witness ==
    /\ pc = "returned"
    /\ call.src = 1
    /\ call.trfail = {1}
    /\ Len(all_entries) = 2
    /\ all_entries[2].translation # TranslationError

\* u is k in some letter-casing
SameLetters(k, u) ==
    /\ Len(u) = Len(k)
    /\ \A i \in 1..Len(k) : LowerChar(u[i]) = LowerChar(k[i])

\* t contains a keyword of the list in some letter-casing
HasKeyword(list, t) ==
    \E n \in 1..Len(list) : \E i \in 0..(Len(t) - Len(list[n])) :
       SameLetters(list[n], SubSeq(t, i + 1, i + Len(list[n])))

\* C13: a feed entry with a new identifier whose title contains a keyword
\* of either list in any letter-casing is returned as a record, and so is
\* an anchor of the scraped page with a new identifier whose title contains
\* a keyword of KEYWORDS_KO in any letter-casing; a feed returns no record
\* whose title and summary hold no keyword in any letter-casing.
C13_CaseInsensitiveMatch ==
    pc \in {"returned", "rendered"} =>
       /\ \A i \in 1..Len(call.entries) :
             (/\ CallIdentifier(call.entries[i]) # <<>>
              /\ CallIdentifier(call.entries[i]) \notin call.before
              /\ \/ HasKeyword(KEYWORDS_KO, call.entries[i].title)
                 \/ IsFeedCall /\ HasKeyword(KEYWORDS_EN, call.entries[i].title))
             => CallIdentifier(call.entries[i]) \in Ids(all_entries)
       /\ IsFeedCall =>
             \A k \in 1..Len(all_entries) :
                \E i \in 1..Len(call.entries) :
                   /\ Identifier(call.entries[i]) = all_entries[k].id
                   /\ \/ HasKeyword(KEYWORDS_KO, Combined(call.entries[i]))
                      \/ HasKeyword(KEYWORDS_EN, Combined(call.entries[i]))

\* a feed returned the record of EntryA, whose title spells the keyword
\* GDPR as "Gdpr"
C13_Witness ==
    /\ pc = "returned"
    /\ IsFeedCall
    /\ call.entries = << EntryA >>
    /\ ~Contains(KEYWORDS_EN[2], EntryA.title)
    /\ Ids(all_entries) = { Identifier(EntryA) }

\* entry e of a feed has no id, no guid and no link, or empty ones only
Unidentified(e) == e.id = <<>> /\ e.guid = <<>> /\ e.link = <<>>

\* record r was made from entry e
RecordOf(r, e) ==
    /\ r.title = strip(e.title)
    /\ r.summary = strip(e.summary)
    /\ r.link = e.link
    /\ r.published = e.published

\* C15: every record a feed returns was made from an entry of the feed and
\* has as identifier that entry's id, or its guid when it has no id, or its
\* link when it has neither; an entry with none of the three has no record,
\* and a feed of such entries only returns nothing and leaves the store as
\* it was; the empty identifier is never stored.
C15_IdentifierPriority ==
    (pc \in {"returned", "rendered"} /\ IsFeedCall) =>
       /\ \A k \in 1..Len(all_entries) :
             \E i \in 1..Len(call.entries) :
                LET e == call.entries[i]
                IN  /\ RecordOf(all_entries[k], e)
                    /\ ~Unidentified(e)
                    /\ e.id # <<>> => all_entries[k].id = e.id
                    /\ (e.id = <<>> /\ e.guid # <<>>) => all_entries[k].id = e.guid
                    /\ (e.id = <<>> /\ e.guid = <<>>) => all_entries[k].id = e.link
       /\ \A i \in 1..Len(call.entries) :
             Unidentified(call.entries[i]) =>
                \A k \in 1..Len(all_entries) :
                   ~RecordOf(all_entries[k], call.entries[i])
       /\ (\A i \in 1..Len(call.entries) : Unidentified(call.entries[i])) =>
             all_entries = <<>> /\ processed = call.before
       /\ <<>> \notin processed

\* a feed returned EntryC, identified by its guid and not by its link, and
\* EntryD, which has a keyword but no id, guid or link: one record, one
\* identifier added
C15_Witness ==
    /\ pc = "returned"
    /\ IsFeedCall
    /\ call.entries = << EntryD, EntryC >>
    /\ call.before = {}
    /\ Ids(all_entries) = { EntryC.guid }
    /\ processed = { EntryC.guid }
    /\ Len(all_entries) = 1

IsMolegCall == call.src = NCalls

\* C16: every record the scrape returns comes from an anchor that has an
\* href and a title with a keyword of KEYWORDS_KO; its identifier and its
\* link are the href, with the site prefix in front when the href begins
\* with "/", and its summary and translation are the title; an anchor
\* without href, or with a title that holds no keyword of KEYWORDS_KO (a
\* keyword of KEYWORDS_EN or none), yields no record and no identifier.
C16_ScrapeAdapter ==
    (pc \in {"returned", "rendered"} /\ IsMolegCall) =>
       /\ \A k \in 1..Len(all_entries) :
             \E i \in 1..Len(call.entries) :
                LET a == call.entries[i]
                    r == all_entries[k]
                IN  /\ a.href # <<>>
                    /\ HasKeyword(KEYWORDS_KO, a.title)
                    /\ r.id = (IF a.href[1] = "/" THEN SITE \o a.href ELSE a.href)
                    /\ r.link = r.id
                    /\ r.title = a.title
                    /\ r.summary = a.title
                    /\ r.translation = a.title
                    /\ r.source = MOLEG_SOURCE
       /\ \A i \in 1..Len(call.entries) :
             LET a == call.entries[i]
             IN  (a.href = <<>> \/ ~HasKeyword(KEYWORDS_KO, a.title)) =>
                    /\ \A k \in 1..Len(all_entries) : all_entries[k].title # a.title
                    /\ a.href # <<>> =>
                          (FullLink(a.href) \in processed
                              <=> FullLink(a.href) \in call.before)
       /\ processed \ call.before = Ids(all_entries)
       /\ \A j \in 1..Len(body) : body[j].tag # "translation"

\* the scrape returned the record of the root-relative anchor LinkM under
\* its absolute URL
C16_Witness ==
    /\ pc = "rendered"
    /\ IsMolegCall
    /\ call.entries = << LinkM >>
    /\ Len(all_entries) = 1
    /\ all_entries[1].id = SITE \o << "/", "m" >>
    /\ all_entries[1].translation = LinkM.title

-----------------------------------------------------------------------------
(* Properties of the backing file *)

\* the lines of the backing file in file order, without their newline
StoredLineSeq ==
    LET ls == FileLines(file.text, <<>>)
    IN  [i \in 1..Len(ls) |->
           IF ls[i][Len(ls[i])] = NL THEN SubSeq(ls[i], 1, Len(ls[i]) - 1)
           ELSE ls[i]]

\* C11: after save_processed the file holds exactly the identifiers of the
\* set, each on a line of its own ended by a newline, in strictly ascending
\* order, and nothing of what it held before; and load_processed, then
\* save_processed, then load_processed returns the set the first
\* load_processed returned.
C11_SortedSaveRoundTrip ==
    /\ pc \in {"written", "second_load"} =>
          /\ file.exists
          /\ Len(StoredLineSeq) = Cardinality(loaded)
          /\ Range(StoredLineSeq) = loaded
          /\ file.text = <<>> \/ file.text[Len(file.text)] = NL
          /\ \A i \in 1..(Len(StoredLineSeq) - 1) :
                StrLess(StoredLineSeq[i], StoredLineSeq[i + 1])
    /\ pc = "second_load" => processed = loaded

\* a file holding two identifiers was loaded, saved in ascending order and
\* loaded again
C11_Witness ==
    /\ pc = "second_load"
    /\ loaded = { << "a" >>, << "b" >> }
    /\ file.text = << "a", NL, "b", NL >>
    /\ processed = loaded

=============================================================================
